---- MODULE Spec2Model ----
(***************************************************************************)
(* Model of exonum/src/events/mod.rs: the Event union, the TimeoutRequest  *)
(* ordering, the EventsAggregator stream (priority merge of four sources)  *)
(* and HandlerPart::run (the for_each driver that feeds the handler).      *)
(***************************************************************************)
EXTENDS Integers, Sequences, FiniteSets, TLC

VARIABLES buf, closed, done, last, polled, out, sent, readyAt, sawClosed,
          handled, run, recording, heap, pushed, popped, args, ords

vars == <<buf, closed, done, last, polled, out, sent, readyAt, sawClosed,
          handled, run, recording, heap, pushed, popped, args, ords>>

aggVars == <<buf, closed, done, last, polled, out, sent, readyAt, sawClosed>>
runVars == <<handled, run>>
heapVars == <<heap, pushed, popped>>
ordVars == <<args, ords>>

(* ---------------------------- bounds ----------------------------------- *)
MaxSend == 3        \* items and errors put on the sources in a recorded run
MaxBuf == 2         \* capacity of one channel
MaxPayload == 2     \* payloads are 1..MaxPayload
MaxFail == 1        \* errors injected in a recorded run, numbered 1..MaxFail
MaxDeadline == 3    \* deadlines are 1..MaxDeadline
MaxHeap == 3        \* TimeoutRequests inserted in one run

Payloads == 1..MaxPayload
Errors == 1..MaxFail
Deadlines == 1..MaxDeadline

(* ------------------------- HandlerPart fields -------------------------- *)
Endpoints == {"internal_rx", "timeout_rx", "network_rx", "api_rx"}

\* EventsAggregator fields other than done
Slots == {"internal", "timeout", "network", "api"}

NewArgsSwapped == <<"network_rx", "timeout_rx", "api_rx", "internal_rx">>

\* HandlerPart::run: EventsAggregator::new(timeout_rx, network_rx, api_rx,
\* internal_rx), positional arguments (timeout, network, api, internal).
NewArgs == <<"timeout_rx", "network_rx", "api_rx", "internal_rx">>

\* EventsAggregator::new: parameters (timeout, network, api, internal) moved
\* into the fields of the same name.
Wire == [s \in Slots |->
           CASE s = "timeout"  -> NewArgs[1]
             [] s = "network"  -> NewArgs[2]
             [] s = "api"      -> NewArgs[3]
             [] s = "internal" -> NewArgs[4]]

(* ------------------------------ Event ---------------------------------- *)
\* enum Event and the wrapping done in poll: one constructor per source.
EventOf(s, item) ==
    CASE s = "internal" -> [tag |-> "Internal", val |-> item]
      [] s = "timeout"  -> [tag |-> "Timeout",  val |-> item]
      [] s = "network"  -> [tag |-> "Network",  val |-> item]
      [] s = "api"      -> [tag |-> "Api",      val |-> item]

NoEvent == [tag |-> "None", val |-> 0]

(* --------------------------- Poll results ------------------------------ *)
ReadySome(ev) == [kind |-> "item", ev |-> ev, err |-> 0]
ReadyNone == [kind |-> "end", ev |-> NoEvent, err |-> 0]
NotReady == [kind |-> "notready", ev |-> NoEvent, err |-> 0]
Err(e) == [kind |-> "err", ev |-> NoEvent, err |-> e]
NotPolled == [kind |-> "none", ev |-> NoEvent, err |-> 0]

(* ------------------------ channel endpoints ---------------------------- *)
Item(p) == [kind |-> "item", val |-> p]
Failure(e) == [kind |-> "err", val |-> e]

StreamPollClosedFirst(q, c) ==
    IF c THEN "end"
    ELSE IF q # <<>>
    THEN IF Head(q).kind = "err" THEN "err" ELSE "item"
    ELSE "notready"

\* Stream::poll of one source: what it reports for queue q, closed flag c.
StreamPoll(q, c) ==
    IF q # <<>>
    THEN IF Head(q).kind = "err" THEN "err" ELSE "item"
    ELSE IF c THEN "end" ELSE "notready"

StreamRestAll(q) == <<>>

StreamRestKeeps(q) == q

\* what the source has left after the poll
StreamRest(q) == IF q # <<>> THEN Tail(q) ELSE q

(* ------------------------ EventsAggregator::poll ----------------------- *)
PollOrderReversed == <<"api", "network", "timeout", "internal">>

PollOrderNoApi == <<"internal", "timeout", "network">>

\* the order of the four match blocks of poll
PollOrder == <<"internal", "timeout", "network", "api">>

Status(s) == StreamPoll(buf[Wire[s]], closed[Wire[s]])

\* the sources that have an item ready
Ready == {s \in Slots : Status(s) = "item"}

RECURSIVE FirstActiveSkipEnd(_)
FirstActiveSkipEnd(i) ==
    IF i > Len(PollOrder) THEN i
    ELSE IF Status(PollOrder[i]) \in {"item", "err"} THEN i
    ELSE FirstActiveSkipEnd(i + 1)

\* index in PollOrder of the first source that does not report NotReady,
\* 5 when all four report NotReady
RECURSIVE FirstActive(_)
FirstActive(i) ==
    IF i > Len(PollOrder) THEN i
    ELSE IF Status(PollOrder[i]) # "notready" THEN i
    ELSE FirstActive(i + 1)

\* the sources polled by one step that stops at index k
PolledUpTo(k) == {PollOrder[i] : i \in 1..(IF k > Len(PollOrder) THEN Len(PollOrder) ELSE k)}

DoneAfterEndNever == FALSE

\* Ready(None) arm: self.done = true
DoneAfterEnd == TRUE

PollResultEndOnErr(k) ==
    IF k > Len(PollOrder) THEN NotReady
    ELSE LET s == PollOrder[k]
             st == Status(s)
             h == Head(buf[Wire[s]])
         IN CASE st = "item" -> ReadySome(EventOf(s, h.val))
              [] st = "end"  -> ReadyNone
              [] st = "err"  -> ReadyNone

\* value returned by an Active step that stops at index k
PollResult(k) ==
    IF k > Len(PollOrder) THEN NotReady
    ELSE LET s == PollOrder[k]
             st == Status(s)
             h == Head(buf[Wire[s]])
         IN CASE st = "item" -> ReadySome(EventOf(s, h.val))
              [] st = "end"  -> ReadyNone
              [] st = "err"  -> Err(h.val)

PollStep ==
    IF done
    THEN /\ last' = ReadyNone
         /\ polled' = {}
         /\ sawClosed' = {}
         /\ UNCHANGED <<buf, done, out, readyAt>>
    ELSE LET k == FirstActive(1)
             r == PollResult(k)
         IN /\ last' = r
            /\ polled' = PolledUpTo(k)
            /\ buf' = IF k > Len(PollOrder) THEN buf
                      ELSE [buf EXCEPT ![Wire[PollOrder[k]]] = StreamRest(@)]
            /\ done' = IF r.kind = "end" THEN DoneAfterEnd ELSE done
            /\ out' = IF r.kind = "item" /\ recording
                      THEN Append(out, r.ev) ELSE out
            /\ readyAt' = IF r.kind = "item" /\ recording
                          THEN Append(readyAt, Ready) ELSE readyAt
            /\ sawClosed' = {s \in PolledUpTo(k) : closed[Wire[s]]}

\* the aggregator polled directly as a Stream
Poll ==
    /\ PollStep
    /\ UNCHANGED <<closed, sent, recording>>
    /\ UNCHANGED runVars
    /\ UNCHANGED heapVars
    /\ UNCHANGED ordVars

(* --------------------------- producers --------------------------------- *)
Total == Len(sent["internal_rx"]) + Len(sent["timeout_rx"])
         + Len(sent["network_rx"]) + Len(sent["api_rx"])

IsFailure(x) == x.kind = "err"

Failures(c) == Len(SelectSeq(sent[c], IsFailure))

Failed == Failures("internal_rx") + Failures("timeout_rx")
          + Failures("network_rx") + Failures("api_rx")

Enqueue(c, x) ==
    /\ ~closed[c]
    /\ Len(buf[c]) < MaxBuf
    /\ recording => Total < MaxSend
    /\ buf' = [buf EXCEPT ![c] = Append(@, x)]
    /\ sent' = IF recording THEN [sent EXCEPT ![c] = Append(@, x)] ELSE sent
    /\ UNCHANGED <<closed, done, last, polled, out, readyAt, sawClosed, recording>>
    /\ UNCHANGED runVars
    /\ UNCHANGED heapVars
    /\ UNCHANGED ordVars

\* the payload of the next item of a recorded run: items are numbered per
\* channel, so that consecutive items of one channel differ
NextPayload(c) == 1 + (Len(sent[c]) % MaxPayload)

\* Sender::send
Send(c, p) ==
    /\ p = IF recording THEN NextPayload(c) ELSE 1
    /\ Enqueue(c, Item(p))

\* a source stream that yields Err(e) at this point
Fail(c, e) ==
    /\ recording
    /\ Failed < MaxFail
    /\ e = Failed + 1
    /\ Enqueue(c, Failure(e))

\* the producer closes the channel or is dropped
Close(c) ==
    /\ ~closed[c]
    /\ closed' = [closed EXCEPT ![c] = TRUE]
    /\ UNCHANGED <<buf, done, last, polled, out, sent, readyAt, sawClosed, recording>>
    /\ UNCHANGED runVars
    /\ UNCHANGED heapVars
    /\ UNCHANGED ordVars

(* --------------------------- HandlerPart::run -------------------------- *)
Running == [state |-> "running", val |-> "none", err |-> 0]

\* handler.handle_event(event): the handler keeps what it was given
HandleEvent(h, ev) == IF recording THEN Append(h, ev) ELSE h

\* for_each: the future's state after the stream returned r
ForEach(r) ==
    CASE r.kind = "end" -> [state |-> "ok", val |-> "unit", err |-> 0]
      [] r.kind = "err" -> [state |-> "err", val |-> "none", err |-> r.err]
      [] OTHER          -> Running

toboxDropsError(f) ==
    IF f.state = "running" THEN f ELSE [state |-> "ok", val |-> "unit", err |-> 0]

\* tobox: Box::new(f.map(drop)), the item is dropped, the error is kept
tobox(f) == IF f.state = "ok" THEN [f EXCEPT !.val = "unit"] ELSE f

\* one turn of the for_each loop of the boxed future
RunStep ==
    /\ run.state = "running"
    /\ PollStep
    /\ handled' = IF last'.kind = "item" THEN HandleEvent(handled, last'.ev)
                  ELSE handled
    /\ run' = tobox(ForEach(last'))
    /\ UNCHANGED <<closed, sent, recording>>
    /\ UNCHANGED heapVars
    /\ UNCHANGED ordVars

(* ---------------------------- TimeoutRequest --------------------------- *)
\* Ord of SystemTime and of NodeTimeout, both taken as integers
Cmp(a, b) == IF a < b THEN "Less" ELSE IF a > b THEN "Greater" ELSE "Equal"

TupleCmpSecondFirst(a, b) ==
    LET c == Cmp(a[2], b[2]) IN IF c # "Equal" THEN c ELSE Cmp(a[1], b[1])

TupleCmpFirstOnly(a, b) == Cmp(a[1], b[1])

\* Ord of a pair: the first components decide unless they are equal
TupleCmp(a, b) ==
    LET c == Cmp(a[1], b[1]) IN IF c # "Equal" THEN c ELSE Cmp(a[2], b[2])

\* Ordering::reverse
Reverse(o) == CASE o = "Less" -> "Greater"
                [] o = "Greater" -> "Less"
                [] OTHER -> "Equal"

\* struct TimeoutRequest(pub SystemTime, pub NodeTimeout)
TimeoutRequest(t, p) == <<t, p>>

TimeoutRequestCmpNoReverse(a, b) == TupleCmp(a, b)

\* impl Ord for TimeoutRequest
TimeoutRequestCmp(a, b) == Reverse(TupleCmp(a, b))

\* impl PartialOrd for TimeoutRequest
TimeoutRequestPartialCmp(a, b) == [some |-> TRUE, ord |-> TimeoutRequestCmp(a, b)]

Requests == {TimeoutRequest(t, p) : t \in Deadlines, p \in Payloads}

\* the max-oriented priority structure: the indices of a greatest element
Greatest(h) == {i \in 1..Len(h) :
                  \A j \in 1..Len(h) : TimeoutRequestCmp(h[i], h[j]) # "Less"}

Remove(h, i) == [j \in 1..(Len(h) - 1) |-> IF j < i THEN h[j] ELSE h[j + 1]]

Push(r) ==
    /\ Len(pushed) < MaxHeap
    /\ heap' = Append(heap, r)
    /\ pushed' = Append(pushed, r)
    /\ popped' = <<>>
    /\ UNCHANGED aggVars
    /\ UNCHANGED runVars
    /\ UNCHANGED ordVars
    /\ UNCHANGED recording

Pop ==
    /\ heap # <<>>
    /\ \E i \in Greatest(heap) :
          /\ popped' = Append(popped, heap[i])
          /\ heap' = Remove(heap, i)
    /\ UNCHANGED pushed
    /\ UNCHANGED aggVars
    /\ UNCHANGED runVars
    /\ UNCHANGED ordVars
    /\ UNCHANGED recording

\* nothing compared yet
NotCompared == [ab |-> "None", ba |-> "None", bc |-> "None", ac |-> "None",
                pab |-> [some |-> FALSE, ord |-> "None"]]

\* a caller compares the requests a, b and c pairwise
Compare(a, b, c) ==
    /\ args' = <<a, b, c>>
    /\ ords' = [ab |-> TimeoutRequestCmp(a, b),
                ba |-> TimeoutRequestCmp(b, a),
                bc |-> TimeoutRequestCmp(b, c),
                ac |-> TimeoutRequestCmp(a, c),
                pab |-> TimeoutRequestPartialCmp(a, b)]
    /\ UNCHANGED aggVars
    /\ UNCHANGED runVars
    /\ UNCHANGED heapVars
    /\ UNCHANGED recording

(* ---------------------------- specifications --------------------------- *)
InitAgg ==
    /\ buf = [c \in Endpoints |-> <<>>]
    /\ closed = [c \in Endpoints |-> FALSE]
    /\ done = FALSE
    /\ last = NotPolled
    /\ polled = {}
    /\ out = <<>>
    /\ sent = [c \in Endpoints |-> <<>>]
    /\ readyAt = <<>>
    /\ sawClosed = {}
    /\ handled = <<>>
    /\ run = Running
    /\ heap = <<>>
    /\ pushed = <<>>
    /\ popped = <<>>
    /\ args = <<>>
    /\ ords = NotCompared

\* a recorded run: the sources deliver at most MaxSend items and errors
Init ==
    /\ InitAgg
    /\ recording = TRUE

\* an unbounded run: the producers never run out, nothing is recorded
InitLive ==
    /\ InitAgg
    /\ recording = FALSE

SendAny == \E c \in Endpoints, p \in Payloads : Send(c, p)
FailAny == \E c \in Endpoints, e \in Errors : Fail(c, e)
CloseAny == \E c \in Endpoints : Close(c)

\* the aggregator polled directly
Next ==
    \/ SendAny
    \/ FailAny
    \/ CloseAny
    \/ Poll

Spec == Init /\ [][Next]_vars

\* the aggregator driven by HandlerPart::run
NextRun ==
    \/ SendAny
    \/ FailAny
    \/ CloseAny
    \/ RunStep

SpecRun == Init /\ [][NextRun]_vars

\* HandlerPart::run on channels that never run out; the executor keeps
\* polling the boxed future while it is not complete
NextLive ==
    \/ SendAny
    \/ CloseAny
    \/ RunStep

SpecLive == InitLive /\ [][NextLive]_vars /\ WF_vars(RunStep)

\* the internal source has an item ready whenever the aggregator is polled
PollBusy ==
    /\ Status("internal") = "item"
    /\ Poll

NextStarve ==
    \/ SendAny
    \/ CloseAny
    \/ PollBusy

SpecStarve == InitLive /\ [][NextStarve]_vars /\ WF_vars(PollBusy)

\* TimeoutRequests kept in a max-oriented priority structure
NextHeap ==
    \/ \E r \in Requests : Push(r)
    \/ Pop

SpecHeap == Init /\ [][NextHeap]_vars

\* TimeoutRequests compared with cmp and partial_cmp
NextOrd == \E a \in Requests, b \in Requests, c \in Requests : Compare(a, b, c)

SpecOrd == Init /\ [][NextOrd]_vars

(* ------------------------------ properties ----------------------------- *)
\* the priority the sources are said to have: Internal > Timeout > Network > Api
Rank(s) == CASE s = "internal" -> 1
             [] s = "timeout"  -> 2
             [] s = "network"  -> 3
             [] s = "api"      -> 4

TagOf(s) == CASE s = "internal" -> "Internal"
              [] s = "timeout"  -> "Timeout"
              [] s = "network"  -> "Network"
              [] s = "api"      -> "Api"

Higher(s) == {h \in Slots : Rank(h) < Rank(s)}
Lower(s) == {l \in Slots : Rank(l) > Rank(s)}

\* s is the first source, in the stated order, that does not report NotReady
Decides(s) == /\ Status(s) # "notready"
              /\ \A h \in Higher(s) : Status(h) = "notready"

\* a step of the aggregator (the producers only add items or close)
IsPollStep == /\ closed' = closed
              /\ \A c \in Endpoints : Len(buf'[c]) <= Len(buf[c])

\* C1: every emitted event comes from the highest-priority source among
\* those that had an item ready at that step (Internal > Timeout > Network >
\* Api), whatever the combination of ready sources.
C1_Priority ==
    \A i \in 1..Len(out) :
        \E s \in readyAt[i] :
            /\ out[i].tag = TagOf(s)
            /\ \A r \in readyAt[i] : Rank(s) <= Rank(r)

\* three sources had an item ready at once and the internal one was not
\* among them
C1_Witness ==
    \E i \in 1..Len(out) :
        Cardinality(readyAt[i]) >= 3 /\ "internal" \notin readyAt[i]

C3_IdempotentTermination ==
    [][(IsPollStep /\ last.kind = "end")
          => /\ last' = ReadyNone
             /\ polled' = {}
             /\ buf' = buf
             /\ out' = out
             /\ done /\ done']_vars

\* a poll after completion that polled nothing although items and an error
\* are waiting on the sources
C3_Witness ==
    /\ last = ReadyNone
    /\ polled = {}
    /\ \E c \in Endpoints : buf[c] # <<>> /\ Head(buf[c]).kind = "item"
    /\ \E c \in Endpoints : buf[c] # <<>> /\ Head(buf[c]).kind = "err"

Complete == done /\ run.state = "ok"

I1 == [tag |-> "Internal", val |-> 1]
I2 == [tag |-> "Internal", val |-> 2]
N1 == [tag |-> "Network", val |-> 1]

\* internal sent I1 then I2, network sent N1 and was ready together with I1,
\* nothing else was sent, and three events have been emitted
ScenarioA ==
    /\ sent["internal_rx"] = <<Item(1), Item(2)>>
    /\ sent["network_rx"] = <<Item(1)>>
    /\ sent["timeout_rx"] = <<>>
    /\ sent["api_rx"] = <<>>
    /\ Len(out) = 3
    /\ {"internal", "network"} \subseteq readyAt[1]

\* C5 as stated: in Scenario A the output is I1, N1, I2.
C5_Original == ScenarioA => out = <<I1, N1, I2>>

\* C5 as amended: in Scenario A step 1 emits I1; steps 2 and 3 emit N1 then I2
\* only when I2 is not yet available at step 2; when I2 is already available
\* at step 2, step 2 emits I2 and step 3 emits N1.
C5_ScenarioA ==
    ScenarioA => out = IF "internal" \in readyAt[2] THEN <<I1, I2, N1>>
                       ELSE <<I1, N1, I2>>

\* Scenario A with I2 arriving after step 2
C5_Witness == ScenarioA /\ "internal" \notin readyAt[2]

\* C6: run hands every emitted event to the handler once and in order,
\* completes successfully exactly when the aggregator reports completion,
\* completes with the source's error when one is propagated, and neither
\* polls nor calls the handler after it has completed.
C6_Driver ==
    /\ [](/\ handled = out
          /\ run.state = "ok" <=> last.kind = "end"
          /\ run.state = "err" <=> last.kind = "err"
          /\ run.state = "err" => run.err = last.err
          /\ run.state = "ok" => run.val = "unit")
    /\ [][run.state # "running"
            => (handled' = handled /\ run' = run /\ last' = last)]_vars

\* the run failed with a source's error after two events were handled
C6_Witness ==
    /\ run.state = "err"
    /\ run.err \in Errors
    /\ Len(handled) >= 2

\* C7: when the first source that is not NotReady reports an error, poll
\* returns that error, emits nothing, polls no lower-priority source and
\* leaves done false.
C7_ErrorPropagation ==
    [][(IsPollStep /\ ~done)
          => \A s \in Slots :
                (Decides(s) /\ Status(s) = "err")
                   => /\ last' = Err(Head(buf[Wire[s]]).val)
                      /\ out' = out
                      /\ polled' = Higher(s) \cup {s}
                      /\ \A l \in Lower(s) : buf'[Wire[l]] = buf[Wire[l]]
                      /\ ~done']_vars

\* the timeout source reported an error while network had an item ready
C7_Witness ==
    /\ last.kind = "err"
    /\ last.err \in Errors
    /\ polled = {"internal", "timeout"}
    /\ "network" \in Ready
    /\ Len(sent["network_rx"]) = 1
    /\ out = <<>>
    /\ ~done

\* C8: while the internal source has an item ready at every poll, no item
\* waiting on the network or api source is ever taken: every emitted event
\* is Internal and the network and api buffers only grow.
C8_Starvation ==
    [][/\ \A c \in {"network_rx", "api_rx"} :
             /\ Len(buf'[c]) >= Len(buf[c])
             /\ buf[c] # <<>> => Head(buf'[c]) = Head(buf[c])
       /\ IsPollStep => last'.kind = "item" /\ last'.ev.tag = "Internal"]_vars

\* internal events are emitted while the network and api buffers are full
C8_Witness ==
    /\ last.kind = "item"
    /\ Len(buf["network_rx"]) = MaxBuf
    /\ Len(buf["api_rx"]) = MaxBuf
    /\ buf["internal_rx"] = <<>>

\* C9: successive extractions from the max-oriented structure ordered by
\* TimeoutRequest::cmp have non-decreasing deadlines, and among equal
\* deadlines non-decreasing payloads.
C9_DeadlineOrder ==
    \A i \in 1..(Len(popped) - 1) :
        /\ popped[i][1] <= popped[i + 1][1]
        /\ popped[i][1] = popped[i + 1][1] => popped[i][2] <= popped[i + 1][2]

\* Scenario C: deadlines inserted as 2, 1, 3 and all three extracted
C9_Witness ==
    /\ Len(pushed) = 3
    /\ <<pushed[1][1], pushed[2][1], pushed[3][1]>> = <<2, 1, 3>>
    /\ Len(popped) = 3

\* C10: a source closed by its producer still delivers the items sent before
\* (subject to priority); its end is observed only when its buffer is empty;
\* once an end has been observed no item is delivered any more.
C10_DrainBeforeEnd ==
    [][IsPollStep =>
          /\ (~done /\ last'.kind = "end")
                => \E s \in polled' : closed[Wire[s]] /\ buf[Wire[s]] = <<>>
          /\ ~done => \A s \in Slots :
                (Decides(s) /\ closed[Wire[s]] /\ buf[Wire[s]] # <<>>
                   /\ Head(buf[Wire[s]]).kind = "item")
                   => /\ last' = ReadySome([tag |-> TagOf(s),
                                            val |-> Head(buf[Wire[s]]).val])
                      /\ buf'[Wire[s]] = Tail(buf[Wire[s]])
                      /\ ~done'
          /\ last.kind = "end" => (out' = out /\ last'.kind = "end")]_vars

\* the last step took an item from a source whose producer had already
\* closed it
C10_Witness ==
    /\ last.kind = "item"
    /\ \E s \in sawClosed :
          /\ last.ev.tag = TagOf(s)
          /\ polled = Higher(s) \cup {s}

\* the variant each endpoint of HandlerPart is said to feed
EndpointTag(c) == CASE c = "internal_rx" -> "Internal"
                    [] c = "timeout_rx"  -> "Timeout"
                    [] c = "network_rx"  -> "Network"
                    [] c = "api_rx"      -> "Api"

\* C11: every item taken from an endpoint of HandlerPart is emitted, and
\* handed to the handler, as the variant of that endpoint (internal_rx ->
\* Internal, timeout_rx -> Timeout, network_rx -> Network, api_rx -> Api)
\* carrying exactly the payload taken.
C11_Lossless ==
    [][IsPollStep =>
          \A c \in Endpoints :
              (buf'[c] # buf[c] /\ Head(buf[c]).kind = "item")
                 => LET ev == [tag |-> EndpointTag(c), val |-> Head(buf[c]).val]
                    IN /\ last' = ReadySome(ev)
                       /\ out' = Append(out, ev)
                       /\ handled' = Append(handled, ev)]_vars

\* the handler received the second timeout item and an api item
C11_Witness ==
    /\ \E i \in 1..Len(handled) : handled[i] = [tag |-> "Timeout", val |-> 2]
    /\ \E i \in 1..Len(handled) : handled[i] = [tag |-> "Api", val |-> 1]

IsItem(x) == x.kind = "item"

\* the payloads of the items in a sequence of channel entries
Vals(q) == LET s == SelectSeq(q, IsItem) IN [i \in 1..Len(s) |-> s[i].val]

\* the payloads emitted with the variant of endpoint c
Emitted(h, c) ==
    LET s == SelectSeq(h, LAMBDA e : e.tag = EndpointTag(c))
    IN [i \in 1..Len(s) |-> s[i].val]

\* C13: a step that emits an event removes exactly the emitted item from one
\* source; that source is the first that is not NotReady, the lower-priority
\* sources are not polled and keep their buffers, and no item is held between
\* steps: what was sent on a source is what was emitted from it followed by
\* what it still buffers.
C13_SingleItem ==
    /\ [](\A c \in Endpoints : Vals(sent[c]) = Emitted(out, c) \o Vals(buf[c]))
    /\ [][(IsPollStep /\ out' # out) =>
             \E s \in Slots :
                 /\ Decides(s)
                 /\ Status(s) = "item"
                 /\ out' = Append(out, [tag |-> TagOf(s),
                                        val |-> Head(buf[Wire[s]]).val])
                 /\ buf'[Wire[s]] = Tail(buf[Wire[s]])
                 /\ \A c \in Endpoints \ {Wire[s]} : buf'[c] = buf[c]
                 /\ polled' = Higher(s) \cup {s}]_vars

\* the timeout source gave the first event while it held a second item and
\* the network source held one
C13_Witness ==
    /\ last = ReadySome([tag |-> "Timeout", val |-> 1])
    /\ Len(out) = 1
    /\ polled = {"internal", "timeout"}
    /\ buf["timeout_rx"] = <<Item(2)>>
    /\ buf["network_rx"] = <<Item(1)>>

\* C14: an Active step reports NotReady exactly when all four sources report
\* NotReady; it then leaves done false and consumes nothing; a step taken
\* after a NotReady one emits an item when the first source that is not
\* NotReady has one.
C14_NotReady ==
    /\ [](last.kind = "notready" => ~done)
    /\ [][(IsPollStep /\ ~done) =>
             /\ last'.kind = "notready" <=> \A s \in Slots : Status(s) = "notready"
             /\ last'.kind = "notready"
                   => (~done' /\ buf' = buf /\ out' = out /\ polled' = Slots)
             /\ (last.kind = "notready"
                   /\ \E s \in Slots : Decides(s) /\ Status(s) = "item")
                   => last'.kind = "item"]_vars

\* a NotReady step after an event was emitted
C14_Witness ==
    /\ last = NotReady
    /\ polled = Slots
    /\ Len(out) >= 1
    /\ ~done

\* C15: done is false at construction, never goes back to false, and becomes
\* true only in a step that reports completion because a polled source is
\* closed and drained; a step that emits an item, reports NotReady or returns
\* an error leaves done as it is.
C15_DoneFlag ==
    /\ ~done
    /\ [][/\ done => done'
          /\ done' # done
                => /\ IsPollStep
                   /\ last' = ReadyNone
                   /\ \E s \in polled' : Status(s) = "end"
          /\ (IsPollStep /\ last'.kind \in {"item", "notready", "err"})
                => done' = done]_vars

\* done was set after an event had been emitted and an error returned
C15_Witness ==
    /\ done
    /\ polled # {}
    /\ Len(out) >= 1
    /\ \E c \in Endpoints : Failures(c) = 1 /\ buf[c] = <<>>

\* the reverse of the lexicographic comparison of (deadline, payload)
InvertedLex(a, b) ==
    IF a[1] < b[1] \/ (a[1] = b[1] /\ a[2] < b[2]) THEN "Greater"
    ELSE IF a[1] > b[1] \/ (a[1] = b[1] /\ a[2] > b[2]) THEN "Less"
    ELSE "Equal"

\* C16: cmp(a, b) is the reverse of the lexicographic comparison of
\* (a.deadline, a.payload) with (b.deadline, b.payload), and partial_cmp
\* returns Some of the same result.
C16_InvertedLex ==
    args # <<>> =>
        /\ ords.ab = InvertedLex(args[1], args[2])
        /\ ords.pab = [some |-> TRUE, ord |-> InvertedLex(args[1], args[2])]

\* equal deadlines, smaller payload on the left: Greater
C16_Witness ==
    /\ args # <<>>
    /\ args[1][1] = args[2][1]
    /\ args[1][2] < args[2][2]
    /\ ords.ab = "Greater"

\* C17: the events handed to the handler that come from one endpoint are, in
\* order, a prefix of the items sent on that endpoint.
C17_PerSourceOrder ==
    \A c \in Endpoints :
        LET e == Emitted(handled, c)
            s == Vals(sent[c])
        IN /\ Len(e) <= Len(s)
           /\ \A i \in 1..Len(e) : e[i] = s[i]

\* the handler received I1, N1, I2
C17_Witness == handled = <<I1, N1, I2>>

Opposite(o) == CASE o = "Less" -> "Greater"
                 [] o = "Greater" -> "Less"
                 [] o = "Equal" -> "Equal"

\* C18: cmp is Equal exactly on equal requests, cmp(a, b) is the reverse of
\* cmp(b, a), cmp is transitive, and two distinct requests with the same
\* deadline are never Equal.
C18_OrderLaws ==
    args # <<>> =>
        /\ ords.ab = "Equal" <=> args[1] = args[2]
        /\ ords.ab = Opposite(ords.ba)
        /\ \A o \in {"Less", "Greater"} :
              /\ (ords.ab = o /\ ords.bc = o) => ords.ac = o
              /\ (ords.ab = o /\ ords.bc = "Equal") => ords.ac = o
              /\ (ords.ab = "Equal" /\ ords.bc = o) => ords.ac = o
        /\ (ords.ab = "Equal" /\ ords.bc = "Equal") => ords.ac = "Equal"
        /\ (args[1] # args[2] /\ args[1][1] = args[2][1]) => ords.ab # "Equal"

\* two distinct requests with one deadline at the head of a chain of Less
C18_Witness ==
    /\ args # <<>>
    /\ args[1][1] = args[2][1]
    /\ args[1] # args[2]
    /\ ords.ab = "Less"
    /\ ords.bc = "Less"
    /\ ords.ac = "Less"

====
